---- MODULE Spec2Model ----
(***************************************************************************)
(* Model of the lock-free MPMC event ring buffer                           *)
(* (atomic_event_ring_buffer.c: ring_buffer_init, enqueue_event,           *)
(* dequeue_event) together with the producer / consumer threads that call  *)
(* it.  Every atomic load, compare-and-swap and slot access of the two     *)
(* functions is one step, so that any interleaving of the threads is a     *)
(* behaviour.  Memory is sequentially consistent; the unsynchronised slot  *)
(* accesses are modelled by the values they can yield.                     *)
(***************************************************************************)
EXTENDS Integers, Sequences, FiniteSets

\* ---------------------------------------------------------------- bounds
\* RING_SIZE is 1024 in the source; the model uses a small ring.
RING_SIZE == 4
\* NUM_PRODUCERS, NUM_CONSUMERS of the drivers, scaled down
NumProducers == 2
NumConsumers == 2
\* loop bound of producer_thread (EVENTS_PER_THREAD / EVENTS_PER_PRODUCER)
EventsPerProducer == 2
\* number of events (A, B, ...) the single-producer scenario enqueues
ScenarioEvents == 5

Producers == 1..NumProducers
Consumers == 1..NumConsumers
Slots == 0..(RING_SIZE - 1)

\* Event { pid, vpn }: producer p's i-th event carries pid = p, vpn = i.
MakeEvent(p, i) == <<p, i>>
\* content of a slot of the zero-initialised global buffer
ZeroEvent == <<0, 0>>
\* the share of the events each consumer_thread waits for
ConsumerShare == (EventsPerProducer * NumProducers) \div NumConsumers

VARIABLES
    head,       \* rb->head
    tail,       \* rb->tail
    buffer,     \* rb->buffer, indexed by slot
    ppc,        \* producer: position in producer_thread / enqueue_event
    pidx,       \* producer: loop counter i of producer_thread
    pev,        \* producer: the event passed to the call in progress
    ptail,      \* producer: local current_tail
    pret,       \* producer: value returned by its last enqueue_event call
    cpc,        \* consumer: position in consumer_thread / dequeue_event
    chead,      \* consumer: local current_head
    out,        \* consumer: the caller's Event record (*event)
    cret,       \* consumer: value returned by its last dequeue_event call
    csucc,      \* consumer: success_count
    claimed,    \* history: events whose tail CAS succeeded, in CAS order
    dequeued,   \* history: events returned, in order of the head CAS
    step,       \* scenario: number of calls of the scenario issued so far
    script      \* scenario: the events A, B, ... it enqueues

vars == <<head, tail, buffer, ppc, pidx, pev, ptail, pret,
          cpc, chead, out, cret, csucc, claimed, dequeued, step, script>>

sharedVars == <<head, tail, buffer>>
prodVars == <<ppc, pidx, pev, ptail, pret>>
consVars == <<cpc, chead, out, cret, csucc>>
histVars == <<claimed, dequeued>>
scenVars == <<step, script>>

\* pret / cret before the first call has returned
NoRet == 1

\* ring_buffer_init on the zero-initialised global, before any thread runs
InitBuffer ==
    /\ head = 0
    /\ tail = 0
    /\ buffer = [s \in Slots |-> ZeroEvent]

InitThreads ==
    /\ ppc = [p \in Producers |-> "idle"]
    /\ pidx = [p \in Producers |-> 0]
    /\ pev = [p \in Producers |-> ZeroEvent]
    /\ ptail = [p \in Producers |-> 0]
    /\ pret = [p \in Producers |-> NoRet]
    /\ cpc = [c \in Consumers |-> "idle"]
    /\ chead = [c \in Consumers |-> 0]
    /\ out = [c \in Consumers |-> ZeroEvent]
    /\ cret = [c \in Consumers |-> NoRet]
    /\ csucc = [c \in Consumers |-> 0]
    /\ claimed = <<>>
    /\ dequeued = <<>>

Init ==
    /\ InitBuffer
    /\ InitThreads
    /\ step = 0
    /\ script = <<>>

\* ------------------------------------------------------------ enqueue_event

\* next_tail computed without the wrap to the start of the ring
NextTailNoWrap(t) == t + 1

\* uint64_t next_tail = (current_tail + 1) % RING_SIZE;
NextTail(t) == (t + 1) % RING_SIZE

\* producer_thread: loop test for a loop of n events, construction of the
\* event and call of enqueue_event
ProducerCall(p, n) ==
    /\ ppc[p] = "idle"
    /\ pidx[p] < n
    /\ pev' = [pev EXCEPT ![p] = MakeEvent(p, pidx[p])]
    /\ ppc' = [ppc EXCEPT ![p] = "e_load_tail"]
    /\ UNCHANGED <<pidx, ptail, pret>>
    /\ UNCHANGED <<sharedVars, consVars, histVars, scenVars>>

\* current_tail = atomic_load(&rb->tail)
EnqLoadTail(p) ==
    /\ ppc[p] = "e_load_tail"
    /\ ptail' = [ptail EXCEPT ![p] = tail]
    /\ ppc' = [ppc EXCEPT ![p] = "e_load_head"]
    /\ UNCHANGED <<pidx, pev, pret>>
    /\ UNCHANGED <<sharedVars, consVars, histVars, scenVars>>

\* the full check looping inside the queue instead of returning -1
EnqLoadHeadRetry(p) ==
    /\ ppc[p] = "e_load_head"
    /\ IF NextTail(ptail[p]) = head
       THEN /\ ppc' = [ppc EXCEPT ![p] = "e_load_tail"]
            /\ ptail' = [ptail EXCEPT ![p] = 0]
            /\ UNCHANGED <<pidx, pev, pret>>
       ELSE /\ ppc' = [ppc EXCEPT ![p] = "e_cas"]
            /\ UNCHANGED <<pidx, pev, ptail, pret>>
    /\ UNCHANGED <<sharedVars, consVars, histVars, scenVars>>

\* current_head = atomic_load(&rb->head); the full check; return -1 when
\* full (current_head is used for nothing else, so it is not kept)
EnqLoadHead(p) ==
    /\ ppc[p] = "e_load_head"
    /\ IF NextTail(ptail[p]) = head
       THEN /\ pret' = [pret EXCEPT ![p] = -1]
            /\ pidx' = [pidx EXCEPT ![p] = @ + 1]
            /\ ppc' = [ppc EXCEPT ![p] = "idle"]
            /\ ptail' = [ptail EXCEPT ![p] = 0]
            /\ pev' = [pev EXCEPT ![p] = ZeroEvent]
       ELSE /\ ppc' = [ppc EXCEPT ![p] = "e_cas"]
            /\ UNCHANGED <<pidx, pev, ptail, pret>>
    /\ UNCHANGED <<sharedVars, consVars, histVars, scenVars>>

\* atomic_compare_exchange_weak(&rb->tail, &current_tail, next_tail)
EnqCas(p) ==
    /\ ppc[p] = "e_cas"
    /\ \/ /\ tail = ptail[p]
          /\ tail' = NextTail(ptail[p])
          /\ claimed' = Append(claimed, pev[p])
          /\ ppc' = [ppc EXCEPT ![p] = "e_write"]
          /\ UNCHANGED ptail
       \/ \* the CAS fails (tail differs, or the weak CAS fails spuriously)
          /\ ppc' = [ppc EXCEPT ![p] = "e_load_tail"]
          /\ ptail' = [ptail EXCEPT ![p] = 0]
          /\ UNCHANGED <<tail, claimed>>
    /\ UNCHANGED <<head, buffer, pidx, pev, pret, consVars, dequeued, scenVars>>

\* rb->buffer[current_tail % RING_SIZE] = *event; return 0
EnqWrite(p) ==
    /\ ppc[p] = "e_write"
    /\ buffer' = [buffer EXCEPT ![ptail[p] % RING_SIZE] = pev[p]]
    /\ pret' = [pret EXCEPT ![p] = 0]
    /\ pidx' = [pidx EXCEPT ![p] = @ + 1]
    /\ ppc' = [ppc EXCEPT ![p] = "idle"]
    /\ ptail' = [ptail EXCEPT ![p] = 0]
    /\ pev' = [pev EXCEPT ![p] = ZeroEvent]
    /\ UNCHANGED <<head, tail, consVars, histVars, scenVars>>

\* ------------------------------------------------------------ dequeue_event

\* the next head computed without the wrap to the start of the ring
NextHeadNoWrap(h) == h + 1

\* (current_head + 1) % RING_SIZE
NextHead(h) == (h + 1) % RING_SIZE

\* the producers that have claimed slot s and not yet written it
WritersOf(s) ==
    {p \in Producers : ppc[p] = "e_write" /\ ptail[p] % RING_SIZE = s}

\* what the unsynchronised struct copy of slot s can yield: the stored
\* event, or, while a producer's store to that slot is in flight, the new
\* event or a mixture of the fields of the two
CopyOutcomes(s) ==
    {buffer[s]} \cup
    UNION {{pev[p], <<pev[p][1], buffer[s][2]>>, <<buffer[s][1], pev[p][2]>>}
           : p \in WritersOf(s)}

\* consumer_thread: loop test for a share of n events, call of dequeue_event
ConsumerCall(c, n) ==
    /\ cpc[c] = "idle"
    /\ csucc[c] < n
    /\ cpc' = [cpc EXCEPT ![c] = "d_load_head"]
    /\ UNCHANGED <<chead, out, cret, csucc>>
    /\ UNCHANGED <<sharedVars, prodVars, histVars, scenVars>>

\* current_head = atomic_load(&rb->head)
DeqLoadHead(c) ==
    /\ cpc[c] = "d_load_head"
    /\ chead' = [chead EXCEPT ![c] = head]
    /\ cpc' = [cpc EXCEPT ![c] = "d_load_tail"]
    /\ UNCHANGED <<out, cret, csucc>>
    /\ UNCHANGED <<sharedVars, prodVars, histVars, scenVars>>

\* the empty check clearing the caller's record before it returns -1
DeqLoadTailClear(c) ==
    /\ cpc[c] = "d_load_tail"
    /\ IF chead[c] = tail
       THEN /\ cret' = [cret EXCEPT ![c] = -1]
            /\ cpc' = [cpc EXCEPT ![c] = "idle"]
            /\ chead' = [chead EXCEPT ![c] = 0]
            /\ out' = [out EXCEPT ![c] = ZeroEvent]
       ELSE /\ cpc' = [cpc EXCEPT ![c] = "d_copy"]
            /\ UNCHANGED <<chead, cret, out>>
    /\ UNCHANGED csucc
    /\ UNCHANGED <<sharedVars, prodVars, histVars, scenVars>>

\* the empty check looping inside the queue instead of returning -1
DeqLoadTailRetry(c) ==
    /\ cpc[c] = "d_load_tail"
    /\ IF chead[c] = tail
       THEN /\ cpc' = [cpc EXCEPT ![c] = "d_load_head"]
            /\ chead' = [chead EXCEPT ![c] = 0]
            /\ UNCHANGED cret
       ELSE /\ cpc' = [cpc EXCEPT ![c] = "d_copy"]
            /\ UNCHANGED <<chead, cret>>
    /\ UNCHANGED <<out, csucc>>
    /\ UNCHANGED <<sharedVars, prodVars, histVars, scenVars>>

\* current_tail = atomic_load(&rb->tail); the empty check; return -1 when
\* empty (current_tail is used for nothing else, so it is not kept)
DeqLoadTail(c) ==
    /\ cpc[c] = "d_load_tail"
    /\ IF chead[c] = tail
       THEN /\ cret' = [cret EXCEPT ![c] = -1]
            /\ cpc' = [cpc EXCEPT ![c] = "idle"]
            /\ chead' = [chead EXCEPT ![c] = 0]
       ELSE /\ cpc' = [cpc EXCEPT ![c] = "d_copy"]
            /\ UNCHANGED <<chead, cret>>
    /\ UNCHANGED <<out, csucc>>
    /\ UNCHANGED <<sharedVars, prodVars, histVars, scenVars>>

\* *event = rb->buffer[current_head % RING_SIZE]
DeqCopy(c) ==
    /\ cpc[c] = "d_copy"
    /\ \E e \in CopyOutcomes(chead[c] % RING_SIZE) :
          out' = [out EXCEPT ![c] = e]
    /\ cpc' = [cpc EXCEPT ![c] = "d_cas"]
    /\ UNCHANGED <<chead, cret, csucc>>
    /\ UNCHANGED <<sharedVars, prodVars, histVars, scenVars>>

\* atomic_compare_exchange_weak(&rb->head, &current_head, next); return 0
DeqCas(c) ==
    /\ cpc[c] = "d_cas"
    /\ \/ /\ head = chead[c]
          /\ head' = NextHead(chead[c])
          /\ dequeued' = Append(dequeued, out[c])
          /\ cret' = [cret EXCEPT ![c] = 0]
          /\ csucc' = [csucc EXCEPT ![c] = @ + 1]
          /\ cpc' = [cpc EXCEPT ![c] = "idle"]
       \/ \* the CAS fails (head differs, or the weak CAS fails spuriously)
          /\ cpc' = [cpc EXCEPT ![c] = "d_load_head"]
          /\ UNCHANGED <<head, dequeued, cret, csucc>>
    /\ chead' = [chead EXCEPT ![c] = 0]
    /\ UNCHANGED <<tail, buffer, out, prodVars, claimed, scenVars>>

\* ------------------------------------------------------------ the threads

\* main: NumProducers producer threads of EventsPerProducer events each and
\* NumConsumers consumer threads, all running against one buffer
Next ==
    \/ \E p \in Producers : ProducerCall(p, EventsPerProducer)
    \/ \E p \in Producers : EnqLoadTail(p)
    \/ \E p \in Producers : EnqLoadHead(p)
    \/ \E p \in Producers : EnqCas(p)
    \/ \E p \in Producers : EnqWrite(p)
    \/ \E c \in Consumers : ConsumerCall(c, ConsumerShare)
    \/ \E c \in Consumers : DeqLoadHead(c)
    \/ \E c \in Consumers : DeqLoadTail(c)
    \/ \E c \in Consumers : DeqCopy(c)
    \/ \E c \in Consumers : DeqCas(c)

Spec == Init /\ [][Next]_vars

\* ------------------------------------------- callers that wrap the cursors

\* A producer that makes a single call next to producers that enqueue a
\* whole ring of events: the single call can be overtaken by RING_SIZE
\* advances of tail.
TailWrapEvents(p) == IF p = 1 THEN 1 ELSE RING_SIZE

NextTailWrap ==
    \/ \E p \in Producers : ProducerCall(p, TailWrapEvents(p))
    \/ \E p \in Producers : EnqLoadTail(p)
    \/ \E p \in Producers : EnqLoadHead(p)
    \/ \E p \in Producers : EnqCas(p)
    \/ \E p \in Producers : EnqWrite(p)
    \/ ConsumerCall(1, 2)
    \/ DeqLoadHead(1)
    \/ DeqLoadTail(1)
    \/ DeqCopy(1)
    \/ DeqCas(1)

SpecTailWrap == Init /\ [][NextTailWrap]_vars

\* One producer that enqueues a whole ring of events, a consumer that takes
\* one event and consumers that take a whole ring of them: the single
\* dequeue can be overtaken by RING_SIZE advances of head.
HeadWrapShare(c) == IF c = 1 THEN 1 ELSE RING_SIZE

NextHeadWrap ==
    \/ ProducerCall(1, RING_SIZE)
    \/ EnqLoadTail(1)
    \/ EnqLoadHead(1)
    \/ EnqCas(1)
    \/ EnqWrite(1)
    \/ \E c \in Consumers : ConsumerCall(c, HeadWrapShare(c))
    \/ \E c \in Consumers : DeqLoadHead(c)
    \/ \E c \in Consumers : DeqLoadTail(c)
    \/ \E c \in Consumers : DeqCopy(c)
    \/ \E c \in Consumers : DeqCas(c)

SpecHeadWrap == Init /\ [][NextHeadWrap]_vars

\* ------------------------------------------ the single-producer scenario

\* no call of enqueue_event or dequeue_event is in progress
Quiescent ==
    /\ \A p \in Producers : ppc[p] = "idle"
    /\ \A c \in Consumers : cpc[c] = "idle"

\* the events the scenario may use for A, B, ...
ScenarioEventSet == {MakeEvent(1, v) : v \in 0..1}

\* ScenarioEvents enqueues, as many dequeues, then one more enqueue
ScenarioLen == 2 * ScenarioEvents + 1

\* a freshly initialised ring and a choice of the events A, B, ...
ScenarioInit ==
    /\ InitBuffer
    /\ InitThreads
    /\ step = 0
    /\ script \in [1..ScenarioEvents -> ScenarioEventSet]

\* the next event the scenario enqueues: A, B, ... in order, and the last
\* of them once more at the end
ScenarioEvent ==
    IF step < ScenarioEvents THEN script[step + 1] ELSE script[ScenarioEvents]

\* the producer calls enqueue_event once the previous call has returned
ScenarioEnqueue ==
    /\ Quiescent
    /\ step < ScenarioEvents \/ step = ScenarioLen - 1
    /\ step' = step + 1
    /\ pev' = [pev EXCEPT ![1] = ScenarioEvent]
    /\ ppc' = [ppc EXCEPT ![1] = "e_load_tail"]
    /\ UNCHANGED <<pidx, ptail, pret, script>>
    /\ UNCHANGED <<sharedVars, consVars, histVars>>

\* the consumer calls dequeue_event once the previous call has returned
ScenarioDequeue ==
    /\ Quiescent
    /\ step >= ScenarioEvents
    /\ step < ScenarioLen - 1
    /\ step' = step + 1
    /\ cpc' = [cpc EXCEPT ![1] = "d_load_head"]
    /\ UNCHANGED <<chead, out, cret, csucc, script>>
    /\ UNCHANGED <<sharedVars, prodVars, histVars>>

NextScenario ==
    \/ ScenarioEnqueue
    \/ ScenarioDequeue
    \/ EnqLoadTail(1)
    \/ EnqLoadHead(1)
    \/ EnqCas(1)
    \/ EnqWrite(1)
    \/ DeqLoadHead(1)
    \/ DeqLoadTail(1)
    \/ DeqCopy(1)
    \/ DeqCas(1)

SpecScenario == ScenarioInit /\ [][NextScenario]_vars

\* ------------------------------------------------- calls that do not overlap

\* Any producer or consumer thread may make the next call, but only once
\* the previous call, of whichever thread, has returned.  Every producer
\* enqueues a whole ring of events and every consumer takes as many, so
\* that both cursors wrap more than once.
NextSequential ==
    \/ Quiescent /\ \E p \in Producers : ProducerCall(p, RING_SIZE)
    \/ \E p \in Producers : EnqLoadTail(p)
    \/ \E p \in Producers : EnqLoadHead(p)
    \/ \E p \in Producers : EnqCas(p)
    \/ \E p \in Producers : EnqWrite(p)
    \/ Quiescent /\ \E c \in Consumers : ConsumerCall(c, RING_SIZE)
    \/ \E c \in Consumers : DeqLoadHead(c)
    \/ \E c \in Consumers : DeqLoadTail(c)
    \/ \E c \in Consumers : DeqCopy(c)
    \/ \E c \in Consumers : DeqCas(c)

SpecSequential == Init /\ [][NextSequential]_vars

\* ------------------------------------------------------- re-initialisation

\* an initialisation that resets head and leaves tail as it is
RingBufferInitHeadOnly ==
    /\ Quiescent
    /\ step = 0
    /\ step' = 1
    /\ head' = 0
    /\ UNCHANGED <<tail, buffer, prodVars, consVars, histVars, script>>

\* ring_buffer_init(rb), called while no operation is in progress:
\* atomic_store(&rb->head, 0); atomic_store(&rb->tail, 0)
RingBufferInit ==
    /\ Quiescent
    /\ step = 0
    /\ step' = 1
    /\ head' = 0
    /\ tail' = 0
    /\ UNCHANGED <<buffer, prodVars, consVars, histVars, script>>

\* the first call after ring_buffer_init: a dequeue_event
ReinitDequeue ==
    /\ Quiescent
    /\ step = 1
    /\ step' = 2
    /\ cpc' = [cpc EXCEPT ![1] = "d_load_head"]
    /\ UNCHANGED <<chead, out, cret, csucc, script>>
    /\ UNCHANGED <<sharedVars, prodVars, histVars>>

\* the call after that: an enqueue_event
ReinitEnqueue ==
    /\ Quiescent
    /\ step = 2
    /\ step' = 3
    /\ pev' = [pev EXCEPT ![1] = MakeEvent(1, pidx[1])]
    /\ ppc' = [ppc EXCEPT ![1] = "e_load_tail"]
    /\ UNCHANGED <<pidx, ptail, pret, script>>
    /\ UNCHANGED <<sharedVars, consVars, histVars>>

\* Producers and a consumer use the buffer concurrently (any state they can
\* leave it in); once no call is in progress the buffer is initialised
\* again, and a dequeue and an enqueue follow.
NextReinit ==
    \/ step = 0 /\ \E p \in Producers : ProducerCall(p, TailWrapEvents(p))
    \/ \E p \in Producers : EnqLoadTail(p)
    \/ \E p \in Producers : EnqLoadHead(p)
    \/ \E p \in Producers : EnqCas(p)
    \/ \E p \in Producers : EnqWrite(p)
    \/ step = 0 /\ ConsumerCall(1, 2)
    \/ DeqLoadHead(1)
    \/ DeqLoadTail(1)
    \/ DeqCopy(1)
    \/ DeqCas(1)
    \/ RingBufferInit
    \/ ReinitDequeue
    \/ ReinitEnqueue

SpecReinit == Init /\ [][NextReinit]_vars

\* ------------------------------------------------------------- scheduling

\* A producer thread that can take a step is eventually scheduled, and its
\* weak CAS on tail does not fail for ever while tail has the expected value.
ProducerFair(p) ==
    /\ WF_vars(EnqLoadTail(p) \/ EnqLoadHead(p) \/ EnqCas(p) \/ EnqWrite(p))
    /\ SF_vars(EnqCas(p) /\ ppc'[p] = "e_write")

\* The same for a consumer thread and its weak CAS on head.
ConsumerFair(c) ==
    /\ WF_vars(DeqLoadHead(c) \/ DeqLoadTail(c) \/ DeqCopy(c) \/ DeqCas(c))
    /\ SF_vars(DeqCas(c) /\ cpc'[c] = "idle")

\* Producers that enqueue one event each and consumers that each wait for
\* all of these events: every thread contends with every other one, and at
\* the end consumers keep calling dequeue_event on an empty queue.
NextContend ==
    \/ \E p \in Producers : ProducerCall(p, 1)
    \/ \E p \in Producers : EnqLoadTail(p)
    \/ \E p \in Producers : EnqLoadHead(p)
    \/ \E p \in Producers : EnqCas(p)
    \/ \E p \in Producers : EnqWrite(p)
    \/ \E c \in Consumers : ConsumerCall(c, NumProducers)
    \/ \E c \in Consumers : DeqLoadHead(c)
    \/ \E c \in Consumers : DeqLoadTail(c)
    \/ \E c \in Consumers : DeqCopy(c)
    \/ \E c \in Consumers : DeqCas(c)

SpecContendFair ==
    /\ Init
    /\ [][NextContend]_vars
    /\ \A p \in Producers : ProducerFair(p)
    /\ \A c \in Consumers : ConsumerFair(c)

\* -------------------------------------------------------- the test driver

\* The driver with one producer thread that attempts a whole ring of
\* events and NumConsumers consumer threads, each looping until it has
\* dequeued its share of the events attempted.
DriverEvents == RING_SIZE
DriverShare == (DriverEvents * 1) \div NumConsumers

NextDriver ==
    \/ ProducerCall(1, DriverEvents)
    \/ EnqLoadTail(1)
    \/ EnqLoadHead(1)
    \/ EnqCas(1)
    \/ EnqWrite(1)
    \/ \E c \in Consumers : ConsumerCall(c, DriverShare)
    \/ \E c \in Consumers : DeqLoadHead(c)
    \/ \E c \in Consumers : DeqLoadTail(c)
    \/ \E c \in Consumers : DeqCopy(c)
    \/ \E c \in Consumers : DeqCas(c)

\* every thread of the driver is scheduled fairly, in its loop as well as
\* inside the calls
SpecDriverFair ==
    /\ Init
    /\ [][NextDriver]_vars
    /\ WF_vars(ProducerCall(1, DriverEvents))
    /\ ProducerFair(1)
    /\ \A c \in Consumers : WF_vars(ConsumerCall(c, DriverShare))
    /\ \A c \in Consumers : ConsumerFair(c)

\* producer_thread and every consumer_thread have left their loops, so
\* that main's joins return and the final check is made
DriverDone ==
    /\ ppc[1] = "idle"
    /\ pidx[1] = DriverEvents
    /\ \A c \in Consumers : cpc[c] = "idle" /\ csucc[c] >= DriverShare

\* ------------------------------------------------- what the claims speak of

Range(seq) == {seq[k] : k \in DOMAIN seq}

\* how often event e occurs in a history
Count(seq, e) == Cardinality({k \in DOMAIN seq : seq[k] = e})

\* events held: successful tail CASes minus successful head CASes
Occupancy == Len(claimed) - Len(dequeued)

\* The k-th successful CAS on tail moves it from (k-1) % RING_SIZE to
\* k % RING_SIZE, so it claims slot (k-1) % RING_SIZE.
ClaimsOf(s) == {k \in DOMAIN claimed : (k - 1) % RING_SIZE = s}

\* the event of the producer that last claimed slot s
LastClaimed(s) ==
    IF ClaimsOf(s) = {} THEN ZeroEvent
    ELSE claimed[CHOOSE k \in ClaimsOf(s) : \A m \in ClaimsOf(s) : m <= k]

\* ------------------------------------------------------------------ claims

\* C1 (as claimed): once no call is in progress and the queue is drained
\* (head = tail), the events returned by dequeue_event are, as a multiset,
\* the events whose enqueue_event returned 0.
C1_NoLossNoDuplication ==
    (Quiescent /\ head = tail) =>
        \A e \in Range(claimed) \cup Range(dequeued) :
            Count(dequeued, e) = Count(claimed, e)

\* C2 (as claimed): a consumer that has copied the slot at the current head
\* holds the event of the producer that claimed that slot.
C2_PayloadPublishedBeforeConsumed ==
    \A c \in Consumers :
        (cpc[c] = "d_cas" /\ head = chead[c]) =>
            out[c] = LastClaimed(chead[c] % RING_SIZE)

\* C3 (as claimed): the number of events held is never negative and never
\* exceeds RING_SIZE - 1.
C3_CapacityBound == Occupancy >= 0 /\ Occupancy <= RING_SIZE - 1

\* C4 (as claimed): in the order of the head CASes, the events of one
\* producer come out in the order that producer enqueued them.
C4_PerProducerFifo ==
    \A j, k \in DOMAIN dequeued :
        (j < k /\ dequeued[j][1] = dequeued[k][1]
               /\ dequeued[j][1] \in Producers) =>
            dequeued[j][2] < dequeued[k][2]

\* C5 (as claimed, the direction the claim singles out): a call of
\* enqueue_event returns -1 only if RING_SIZE - 1 events are held at the
\* instant it reads head for its full check.
C5_FullOnlyAtCapacity ==
    [][\A p \in Producers :
          (ppc[p] = "e_load_head" /\ ppc'[p] = "idle" /\ pret'[p] = -1) =>
              Occupancy = RING_SIZE - 1]_vars

\* C6 (as claimed, the direction the claim singles out): a call of
\* dequeue_event returns -1 only if no event is held at the instant it
\* reads tail for its empty check.
C6_EmptyOnlyWhenNoEvents ==
    [][\A c \in Consumers :
          (cpc[c] = "d_load_tail" /\ cpc'[c] = "idle" /\ cret'[c] = -1) =>
              Occupancy = 0]_vars

\* C7 (as claimed): when no call is in progress and the queue has been
\* drained until dequeue_event returned Empty (head = tail), as many
\* enqueue_event calls as dequeue_event calls have returned 0.
C7_TerminalConsistency ==
    (Quiescent /\ head = tail /\ \E c \in Consumers : cret[c] = -1) =>
        Len(claimed) = Len(dequeued)

\* C9 (as claimed): no two producers hold the same slot claimed and not yet
\* written.
C9_ProducersExclusive ==
    \A p, q \in Producers :
        (p # q /\ ppc[p] = "e_write" /\ ppc[q] = "e_write") =>
            ptail[p] % RING_SIZE # ptail[q] % RING_SIZE

\* C10 (as claimed): no consumer is at its copy of a slot that a producer
\* holds claimed and not yet written.
C10_ProducerConsumerExclusive ==
    \A c \in Consumers :
        cpc[c] = "d_copy" => WritersOf(chead[c] % RING_SIZE) = {}

\* the results of the scenario when the ring takes `held` events: the first
\* `held` enqueues return 0 and the others -1, the first `held` dequeues
\* return A, B, ... in order and the others -1, the last enqueue returns 0
ScenarioResults(held) ==
    Quiescent =>
        /\ step \in 1..ScenarioEvents =>
              pret[1] = (IF step <= held THEN 0 ELSE -1)
        /\ step \in (ScenarioEvents + 1)..(2 * ScenarioEvents) =>
              IF step - ScenarioEvents <= held
              THEN cret[1] = 0 /\ out[1] = script[step - ScenarioEvents]
              ELSE cret[1] = -1
        /\ step = ScenarioLen => pret[1] = 0

\* the number of events of the scenario a ring of RING_SIZE slots takes
ScenarioHeld ==
    IF ScenarioEvents < RING_SIZE - 1 THEN ScenarioEvents ELSE RING_SIZE - 1

\* C8 (as claimed): with RING_SIZE = 4 the enqueues of A, B, C, D succeed
\* and that of E returns Full, the dequeues return A, B, C, D and then
\* Empty, and the last enqueue of E succeeds.
C8_ScenarioAsClaimed ==
    (RING_SIZE = 4 /\ ScenarioEvents = 5) => ScenarioResults(4)

\* C8 (amended): the ring takes RING_SIZE - 1 events; with RING_SIZE = 4
\* the enqueues of A, B, C succeed and those of D and E return Full, the
\* dequeues return A, B, C and then Empty, and the last enqueue of E
\* succeeds.
C8_ScenarioUsableSlots == ScenarioResults(ScenarioHeld)

\* C8 witness: the whole scenario has run, the last enqueue has returned 0
\* after a Full and an Empty result
C8_ScenarioCompleted ==
    /\ Quiescent
    /\ step = ScenarioLen
    /\ pret[1] = 0
    /\ cret[1] = -1
    /\ Len(claimed) = ScenarioHeld + 1
    /\ Len(dequeued) = ScenarioHeld

\* C11 (as claimed): every event returned by a successful dequeue_event is
\* an event some producer passed to an enqueue_event whose CAS succeeded,
\* never the initial content of a slot or a mixture of two events.
C11_PayloadIntegrity ==
    \A k \in DOMAIN dequeued : dequeued[k] \in Range(claimed)

\* C12 (as claimed): the stored head is at most the stored tail.
C12_CursorOrder == head <= tail

\* C13: a call that finds the queue full (empty) at its check returns -1 in
\* that very step; the step that returns -1 leaves head, tail and every
\* slot as they are; and head, tail and the slots are modified only by a
\* successful CAS and by the slot store, i.e. only by calls that return 0.
C13_FullEmptyPure ==
    [][/\ \A p \in Producers :
             (ppc[p] = "e_load_head" /\ ppc'[p] # ppc[p]
                  /\ NextTail(ptail[p]) = head) =>
                 (ppc'[p] = "idle" /\ pret'[p] = -1)
       /\ \A c \in Consumers :
             (cpc[c] = "d_load_tail" /\ cpc'[c] # cpc[c]
                  /\ chead[c] = tail) =>
                 (cpc'[c] = "idle" /\ cret'[c] = -1)
       /\ \A p \in Producers :
             (ppc[p] # "idle" /\ ppc'[p] = "idle" /\ pret'[p] = -1) =>
                 UNCHANGED sharedVars
       /\ \A c \in Consumers :
             (cpc[c] # "idle" /\ cpc'[c] = "idle" /\ cret'[c] = -1) =>
                 UNCHANGED sharedVars
       /\ sharedVars' # sharedVars =>
             \/ \E p \in Producers : ppc[p] = "e_cas" /\ ppc'[p] = "e_write"
             \/ \E p \in Producers :
                   ppc[p] = "e_write" /\ ppc'[p] = "idle" /\ pret'[p] = 0
             \/ \E c \in Consumers :
                   cpc[c] = "d_cas" /\ cpc'[c] = "idle" /\ cret'[c] = 0
      ]_vars

\* C13 witness: a call of enqueue_event has returned -1 on a full queue
\* and a call of dequeue_event has returned -1, with events written
C13_FullAndEmptyReturned ==
    /\ \E p \in Producers : pret[p] = -1 /\ ppc[p] = "idle"
    /\ \E c \in Consumers : cret[c] = -1 /\ cpc[c] = "idle"
    /\ \E s \in Slots : buffer[s] # ZeroEvent

\* C14: under fair scheduling every call of enqueue_event and every call of
\* dequeue_event in progress eventually returns (the other threads advance
\* the cursors only finitely often), so whenever a thread is inside a call
\* some call eventually returns.
C14_LockFree ==
    /\ \A p \in Producers : (ppc[p] # "idle") ~> (ppc[p] = "idle")
    /\ \A c \in Consumers : (cpc[c] # "idle") ~> (cpc[c] = "idle")

\* C14 witness: a producer and a consumer are each about to lose their CAS
\* to another thread that has advanced the cursor since they loaded it
C14_ContendedCalls ==
    /\ \E p \in Producers : ppc[p] = "e_cas" /\ tail # ptail[p]
    /\ \E c \in Consumers : cpc[c] = "d_cas" /\ head # chead[c]

\* C15 (as claimed): a call goes round its loop again only when the cursor
\* no longer has the value the thread loaded, i.e. when another thread has
\* advanced it between the load and the CAS.
C15_RetryOnlyOnContention ==
    [][/\ \A p \in Producers :
             (ppc[p] = "e_cas" /\ ppc'[p] = "e_load_tail") => tail # ptail[p]
       /\ \A c \in Consumers :
             (cpc[c] = "d_cas" /\ cpc'[c] = "d_load_head") => head # chead[c]
      ]_vars

\* C15 (amended): a call goes round its loop again only after its own CAS
\* has failed, never after the full or the empty check; a CAS that finds
\* the cursor changed always fails and the call goes round again; the CAS
\* may also fail, being weak, while the cursor is unchanged.
C15_RetryOnlyAfterFailedCas ==
    [][/\ \A p \in Producers :
             (ppc[p] \notin {"idle", "e_load_tail"}
                  /\ ppc'[p] = "e_load_tail") =>
                 (ppc[p] = "e_cas" /\ UNCHANGED <<sharedVars, histVars>>)
       /\ \A p \in Producers :
             (ppc[p] = "e_cas" /\ ppc'[p] # ppc[p] /\ tail # ptail[p]) =>
                 ppc'[p] = "e_load_tail"
       /\ \A c \in Consumers :
             (cpc[c] \notin {"idle", "d_load_head"}
                  /\ cpc'[c] = "d_load_head") =>
                 (cpc[c] = "d_cas" /\ UNCHANGED <<sharedVars, histVars>>)
       /\ \A c \in Consumers :
             (cpc[c] = "d_cas" /\ cpc'[c] # cpc[c] /\ head # chead[c]) =>
                 cpc'[c] = "d_load_head"
      ]_vars

\* C15 witness: a producer is at its CAS on a position that another
\* producer has just claimed, and a consumer is at its CAS on a head that
\* another consumer has advanced
C15_LostRace ==
    /\ \E p, q \in Producers :
          /\ p # q
          /\ ppc[p] = "e_cas"
          /\ ppc[q] = "e_write"
          /\ ptail[q] = ptail[p]
          /\ tail = NextTail(ptail[p])
    /\ \E c \in Consumers :
          cpc[c] = "d_cas" /\ head = NextHead(chead[c]) /\ dequeued # <<>>

\* the reference FIFO queue: every event accepted by enqueue_event is
\* appended to it and every successful dequeue_event removes its oldest
RefQueue == SubSeq(claimed, Len(dequeued) + 1, Len(claimed))

\* between two calls the ring holds the reference queue: at most
\* RING_SIZE - 1 items, stored in the slots from head up to tail
RingHoldsRefQueue ==
    Quiescent =>
        /\ Len(dequeued) <= Len(claimed)
        /\ Len(RefQueue) <= RING_SIZE - 1
        /\ tail = (head + Len(RefQueue)) % RING_SIZE
        /\ \A i \in 1..Len(RefQueue) :
               buffer[(head + i - 1) % RING_SIZE] = RefQueue[i]

\* C16: when calls do not overlap, enqueue_event returns -1 iff the
\* reference queue holds RING_SIZE - 1 items and otherwise returns 0 with
\* its event appended; dequeue_event returns -1 iff the reference queue is
\* empty and otherwise returns 0 with the oldest item; and between calls
\* the ring holds the reference queue, however often the cursors wrapped.
C16_SequentialFifo ==
    [][/\ RingHoldsRefQueue'
       /\ \A p \in Producers :
             (ppc[p] = "e_load_head" /\ ppc'[p] # ppc[p]) =>
                 IF Len(RefQueue) = RING_SIZE - 1
                 THEN ppc'[p] = "idle" /\ pret'[p] = -1
                 ELSE ppc'[p] = "e_cas"
       /\ \A p \in Producers :
             (ppc[p] # "idle" /\ ppc'[p] = "idle" /\ pret'[p] = 0) =>
                 /\ RefQueue # <<>>
                 /\ RefQueue[Len(RefQueue)] = pev[p]
                 /\ buffer'[(tail - 1) % RING_SIZE] = pev[p]
       /\ \A c \in Consumers :
             (cpc[c] = "d_load_tail" /\ cpc'[c] # cpc[c]) =>
                 IF RefQueue = <<>>
                 THEN cpc'[c] = "idle" /\ cret'[c] = -1
                 ELSE cpc'[c] = "d_copy"
       /\ \A c \in Consumers :
             (cpc[c] # "idle" /\ cpc'[c] = "idle" /\ cret'[c] = 0) =>
                 /\ RefQueue # <<>>
                 /\ out'[c] = Head(RefQueue)
                 /\ RefQueue' = Tail(RefQueue)
      ]_vars

\* C16 witness: no call is in progress, both cursors have wrapped, every
\* thread has had a call return 0 or -1, and the queue holds events
C16_WrappedSequentially ==
    /\ Quiescent
    /\ Len(claimed) > RING_SIZE
    /\ Len(dequeued) > RING_SIZE
    /\ RefQueue # <<>>
    /\ \E p \in Producers : pret[p] = -1
    /\ \E c \in Consumers : cret[c] = -1

\* C17 (as claimed): a CAS succeeds only on a cursor nobody has advanced
\* since it was loaded, so the check made right after the load still holds
\* at the successful CAS: a producer claims a position only while the
\* queue is not full for it, a consumer takes a slot only while the queue
\* is not empty for it.
C17_NoStaleClaim ==
    [][/\ \A p \in Producers :
             (ppc[p] = "e_cas" /\ ppc'[p] = "e_write") =>
                 NextTail(ptail[p]) # head
       /\ \A c \in Consumers :
             (cpc[c] = "d_cas" /\ cpc'[c] = "idle") => chead[c] # tail
      ]_vars

\* C18: ring_buffer_init sets head and tail to 0 and leaves every slot as
\* it is, whatever state the buffer was in; the dequeue_event called next
\* returns -1 and changes nothing; the enqueue_event called after it
\* returns 0 and stores its event in slot 0.
C18_InitResetsToEmpty ==
    [][/\ (step = 0 /\ step' = 1) =>
             (head' = 0 /\ tail' = 0 /\ buffer' = buffer)
       /\ (step = 2 /\ cpc[1] # "idle" /\ cpc'[1] = "idle") =>
             (cret'[1] = -1 /\ UNCHANGED sharedVars)
       /\ (step = 3 /\ ppc[1] # "idle" /\ ppc'[1] = "idle") =>
             /\ pret'[1] = 0
             /\ head' = 0
             /\ tail' = 1
             /\ buffer' = [buffer EXCEPT ![0] = pev[1]]
      ]_vars

\* C18 witness: a buffer that held events and whose slots had been written
\* was initialised again; the dequeue after it returned -1 and the enqueue
\* after that returned 0
C18_ReinitialisedAndUsed ==
    /\ Quiescent
    /\ step = 3
    /\ cret[1] = -1
    /\ pret[1] = 0
    /\ Len(claimed) >= Len(dequeued) + 3
    /\ buffer[1] # ZeroEvent
    /\ head = 0
    /\ tail = 1

\* C19 (as claimed): a consumer whose calls of dequeue_event have all
\* returned -1 still holds in *event the value it held before its first
\* call.
C19_OutputUntouchedOnEmpty ==
    \A c \in Consumers :
        (cpc[c] = "idle" /\ csucc[c] = 0 /\ cret[c] = -1) =>
            out[c] = ZeroEvent

\* C19 (amended): *event is written by the slot copy only, and the slot
\* copy is reached only from an empty check that found head # tail; the
\* iteration that returns -1 does not write *event.  So *event holds its
\* value of call entry when the call returns -1 from its first iteration,
\* and the slot copied last when it returns -1 after a failed CAS.
C19_OutputWrittenOnlyByCopy ==
    [][\A c \in Consumers :
          /\ out'[c] # out[c] => (cpc[c] = "d_copy" /\ cpc'[c] = "d_cas")
          /\ (cpc[c] # "d_copy" /\ cpc'[c] = "d_copy") =>
                (cpc[c] = "d_load_tail" /\ chead[c] # tail)
          /\ (cpc[c] # "d_load_tail" /\ cpc'[c] = "d_load_tail") =>
                cpc[c] = "d_load_head"
          /\ (cpc[c] = "idle" /\ cpc'[c] # "idle") =>
                cpc'[c] = "d_load_head"
          /\ (cpc[c] # "idle" /\ cpc'[c] = "idle" /\ cret'[c] = -1) =>
                (cpc[c] = "d_load_tail" /\ out'[c] = out[c])
      ]_vars

\* C19 witness: a consumer that has never dequeued an event has returned
\* from a call with -1 and holds a copied slot in *event
C19_EmptyAfterLostRace ==
    \E c \in Consumers :
        /\ cpc[c] = "idle"
        /\ csucc[c] = 0
        /\ cret[c] = -1
        /\ out[c] \in Range(claimed)

\* C20 (as claimed): under fair scheduling the producer and every consumer
\* of the driver eventually leave their loops and the final check is
\* reached.
C20_DriverTerminates == <>DriverDone

====
